---- MODULE Spec2Model ----
(***************************************************************************)
(* Quota-gated ingestion pipeline of the SocialSieve backend: the usage    *)
(* ledger of models/user.py, the voice pipeline of routers/voice.py, the   *)
(* text pipeline of routers/text.py and the profile endpoint of            *)
(* routers/auth.py.  Every request handler runs on its own copy of the     *)
(* account document (utils/dependencies.py loads it per request) and       *)
(* suspends at its awaits, so each stage is one action and the stages of   *)
(* two requests interleave.  Time passes between the steps: a step that    *)
(* reads the clock reads any instant from the last reading on.             *)
(***************************************************************************)
EXTENDS Integers, FiniteSets, Sequences, TLC

\* ---------------------------------------------------------------- bounds
MaxRequests == 2        \* requests started in one behaviour
MaxTime == 2            \* last instant of the wall clock
MaxRequested == 3       \* largest number of minutes asked of check_voice_limit
MaxDurationSeconds == 179   \* longest duration the minute bands are checked for

\* ------------------------------------------------------ program constants
DefaultVoiceLimit == 30
DefaultCommentLimit == 20
MaxTextLength == 10000
SecondsPerMinute == 60
MinMinutes == 1

Workers == {"w1", "w2"}
\* Handlers touch no account but the caller's own, so the accounts that
\* submit analyses are represented by one, taken in each of its conditions.
Accounts == {"alice"}
UnlimitedPlans == {"pro", "creator"}

Languages == {"en"}
NoDuration == -1        \* the provider's result carries no "duration" key
ProviderDurations == {NoDuration, 95, 120}
\* <<plan, voice minutes used, text analyses used>> when the model starts
InitAccounts == {<<"free", 0, 0>>, <<"free", 29, 20>>, <<"pro", 29, 20>>,
                 <<"creator", 29, 20>>}
TextInputs == { [len |-> 0, blank |-> TRUE], [len |-> 10000, blank |-> FALSE],
                [len |-> 10001, blank |-> FALSE] }

VARIABLES
    now,            \* datetime.utcnow() as read last, an instant
    users,          \* the "users" collection: account id -> document
    voiceRecords,   \* the VoiceAnalysis collection
    textRecords,    \* the TextAnalysis collection
    objectStore,    \* number of uploads held by the object store
    req,            \* per worker: the request it is handling
    resp,           \* the response sent by the last step, if it sent one
    started,        \* number of requests started so far
    parser,         \* analyze_transcript: the call in progress
    scratch,        \* transcribe_audio: per worker, the call in progress
    tempfiles       \* the temporary files that exist

vars == <<now, users, voiceRecords, textRecords, objectStore, req, resp, started,
          parser, scratch, tempfiles>>

\* the state of the two provider services, looked at on its own further down
services == <<parser, scratch, tempfiles>>

\* ------------------------------------------------------------- the clock
\* Instant 0 is the last instant of December 2025 and every later month has
\* two instants, so that a month change also changes the year and two calls
\* can fall in one month after a reset.
MonthIndex(t) == 11 + ((t + 1) \div 2)
Month(t) == (MonthIndex(t) % 12) + 1
Year(t) == 2025 + (MonthIndex(t) \div 12)

\* ------------------------------------------------------- models/user.py
UsageStats(v, c, t) ==
    [voice_minutes_used |-> v, comments_analyzed |-> c, last_reset |-> t]

UserLimits ==
    [voice_minutes_per_month |-> DefaultVoiceLimit,
     comments_per_month |-> DefaultCommentLimit]

User(a, plan, v, c, t) ==
    [id |-> a, plan |-> plan, usage |-> UsageStats(v, c, t),
     limits |-> UserLimits]

\* variant: the ledger is stamped with the time of every call
reset_usage_if_needed_stamps(u, t) ==
    IF Month(u.usage.last_reset) # Month(t) \/ Year(u.usage.last_reset) # Year(t)
    THEN [u EXCEPT !.usage = UsageStats(0, 0, t)]
    ELSE [u EXCEPT !.usage.last_reset = t]

reset_usage_if_needed(u, t) ==
    IF Month(u.usage.last_reset) # Month(t) \/ Year(u.usage.last_reset) # Year(t)
    THEN [u EXCEPT !.usage = UsageStats(0, 0, t)]
    ELSE u

\* variant: the requested minutes are left out of the comparison
check_voice_limit_ignores_request(u, duration_minutes, t) ==
    LET self == reset_usage_if_needed(u, t) IN
    IF self.plan \in UnlimitedPlans
    THEN TRUE
    ELSE self.usage.voice_minutes_used <= self.limits.voice_minutes_per_month

\* check_voice_limit mutates the in-memory account (the reset) and returns
\* a boolean; the two results are the two operators below.
check_voice_limit(u, duration_minutes, t) ==
    LET self == reset_usage_if_needed(u, t) IN
    IF self.plan \in UnlimitedPlans
    THEN TRUE
    ELSE self.usage.voice_minutes_used + duration_minutes
            <= self.limits.voice_minutes_per_month

\* variant: one analysis too many is admitted
check_comment_limit_inclusive(u, t) ==
    LET self == reset_usage_if_needed(u, t) IN
    IF self.plan \in UnlimitedPlans
    THEN TRUE
    ELSE self.usage.comments_analyzed <= self.limits.comments_per_month

check_comment_limit(u, t) ==
    LET self == reset_usage_if_needed(u, t) IN
    IF self.plan \in UnlimitedPlans
    THEN TRUE
    ELSE self.usage.comments_analyzed < self.limits.comments_per_month

\* variant: the increment is applied without the monthly reset
increment_voice_usage_noreset(u, duration_minutes, t) ==
    [u EXCEPT !.usage.voice_minutes_used = @ + duration_minutes]

\* the account object as increment_voice_usage saves it
increment_voice_usage(u, duration_minutes, t) ==
    LET self == reset_usage_if_needed(u, t) IN
    [self EXCEPT !.usage.voice_minutes_used = @ + duration_minutes]

increment_comment_usage(u, t) ==
    LET self == reset_usage_if_needed(u, t) IN
    [self EXCEPT !.usage.comments_analyzed = @ + 1]

\* ------------------------------------------------------ routers/voice.py
Max(a, b) == IF a >= b THEN a ELSE b

\* int(cloudinary_result.get("duration", 0))
DurationSeconds(d) == IF d = NoDuration THEN 0 ELSE d

\* variant: the one-minute minimum is left out
DurationMinutes_nomin(duration_seconds) ==
    duration_seconds \div SecondsPerMinute

\* variant: started minutes are charged (rounding up)
DurationMinutes_ceil(duration_seconds) ==
    Max(MinMinutes, (duration_seconds + SecondsPerMinute - 1) \div SecondsPerMinute)

\* max(1, duration_seconds // 60)
DurationMinutes(duration_seconds) ==
    Max(MinMinutes, duration_seconds \div SecondsPerMinute)

\* -------------------------------------------------------- request state
NoUser == User("alice", "free", 0, 0, 0)
NoResult == [summary |-> "none", action_items |-> "none", full_analysis |-> "none"]

IdleReq ==
    [kind |-> "none", pc |-> "idle", current_user |-> NoUser,
     text |-> [len |-> 0, blank |-> TRUE],
     duration_seconds |-> 0, duration_minutes |-> 0,
     checked |-> FALSE, result |-> NoResult, language |-> "none", id |-> 0]

NoDetail == [msg |-> "none", used |-> 0, limit |-> 0]
Detail(msg) == [NoDetail EXCEPT !.msg = msg]

\* what the caller receives: status code, error detail, the fields of the
\* body and the values of those the properties read
Response(r, status, detail, body) ==
    [kind |-> r.kind, user |-> r.current_user.id, status |-> status,
     detail |-> detail, body |-> body,
     id |-> IF status = 200 THEN r.id ELSE 0,
     duration_seconds |-> IF status = 200 THEN r.duration_seconds ELSE 0,
     summary |-> IF status = 200 THEN r.result.summary ELSE "none"]

NoResponse == Response(IdleReq, 0, NoDetail, {})

\* no call of analyze_transcript, no call of transcribe_audio in progress
NoCall ==
    [pc |-> "idle", analysis |-> <<>>, line |-> 0, current_section |-> "None",
     summary |-> <<>>, action_items |-> <<>>, full_analysis |-> <<>>]
NoTranscription == [pc |-> "idle", temp_file |-> 0, error |-> "none"]

Init ==
    /\ now = 0
    /\ users \in { [a \in Accounts |-> User(a, u[1], u[2], u[3], 0)] :
                     u \in InitAccounts }
    /\ voiceRecords = {}
    /\ textRecords = {}
    /\ objectStore = 0
    /\ req = [w \in Workers |-> IdleReq]
    /\ resp = NoResponse
    /\ started = 0
    /\ parser = NoCall
    /\ scratch = [w \in Workers |-> NoTranscription]
    /\ tempfiles = {}

\* the instants datetime.utcnow() can return at the next reading
Clock == now..MaxTime

\* a new request is taken by the first worker that has none in progress
Free(w) == req[w].pc = "idle" /\ (w = "w1" \/ req["w1"].pc # "idle")

\* the handler returns or raises: its locals go out of scope and the
\* response is sent
Finish(w, r, status, detail, body) ==
    /\ req' = [req EXCEPT ![w] = IdleReq]
    /\ resp' = Response(r, status, detail, body)

\* the handler goes on to its next await; a response sent by the step
\* before has been delivered
Continue(w, r) ==
    /\ req' = [req EXCEPT ![w] = r]
    /\ resp' = NoResponse

\* get_current_user: the request gets its own copy of the stored account
get_current_user(a, kind) ==
    [IdleReq EXCEPT !.kind = kind, !.current_user = users[a]]

\* variant: the upload is made before the media type is looked at
Validate_after_upload(w) ==
    /\ Free(w)
    /\ started < MaxRequests
    /\ \E a \in Accounts, audio \in BOOLEAN :
          LET r == get_current_user(a, "voice") IN
          IF audio
          THEN Continue(w, [r EXCEPT !.pc = "store"]) /\ UNCHANGED objectStore
          ELSE /\ Finish(w, r, 400, Detail("File must be audio"), {})
               /\ objectStore' = objectStore + 1
    /\ started' = started + 1
    /\ UNCHANGED <<now, users, voiceRecords, textRecords>>
    /\ UNCHANGED services

\* POST /api/voice/analyze arrives: the account is loaded, then
\* STEP 1: the declared media type must be an audio type
Validate(w) ==
    /\ Free(w)
    /\ started < MaxRequests
    /\ \E a \in Accounts, audio \in BOOLEAN :
          LET r == get_current_user(a, "voice") IN
          IF audio
          THEN Continue(w, [r EXCEPT !.pc = "store"])
          ELSE Finish(w, r, 400, Detail("File must be audio"), {})
    /\ started' = started + 1
    /\ UNCHANGED <<now, users, voiceRecords, textRecords, objectStore>>
    /\ UNCHANGED services

\* STEP 2: upload to the object store; it reports a duration or fails (of
\* the upload's result the handler's later steps read the duration; the
\* URL goes into the record unread)
Store(w) ==
    /\ req[w].kind = "voice"
    /\ req[w].pc = "store"
    /\ \/ \E d \in ProviderDurations :
            /\ objectStore' = objectStore + 1
            /\ Continue(w, [req[w] EXCEPT !.pc = "admit",
                                          !.duration_seconds = DurationSeconds(d)])
       \/ /\ Finish(w, req[w], 500, Detail("upload failed"), {})
          /\ UNCHANGED objectStore
    /\ UNCHANGED <<now, users, voiceRecords, textRecords, started>>
    /\ UNCHANGED services

\* STEP 3: compute the minutes and check the monthly limit
Admit(w) ==
    /\ req[w].kind = "voice"
    /\ req[w].pc = "admit"
    /\ \E t \in Clock :
        /\ now' = t
        /\ LET duration_minutes == DurationMinutes(req[w].duration_seconds)
               can_process == check_voice_limit(req[w].current_user, duration_minutes, t)
               self == reset_usage_if_needed(req[w].current_user, t)
               r == [req[w] EXCEPT !.current_user = self,
                                   !.duration_minutes = duration_minutes,
                                   !.checked = TRUE]
           IN IF can_process
              THEN Continue(w, [r EXCEPT !.pc = "transcribe"])
              ELSE Finish(w, r, 403,
                          [msg |-> "Monthly limit exceeded",
                           used |-> self.usage.voice_minutes_used,
                           limit |-> self.limits.voice_minutes_per_month],
                          {})
    /\ UNCHANGED <<users, voiceRecords, textRecords, objectStore, started>>
    /\ UNCHANGED services

\* variant: a failed transcription leaves a partial record behind
Transcribe_keeps_partial(w) ==
    /\ req[w].kind = "voice"
    /\ req[w].pc = "transcribe"
    /\ \/ /\ \E language \in Languages :
               Continue(w, [req[w] EXCEPT !.pc = "summarize", !.language = language])
          /\ UNCHANGED voiceRecords
       \/ /\ Finish(w, req[w], 500, Detail("transcription failed"), {})
          /\ voiceRecords' = voiceRecords
                \cup {[id |-> Cardinality(voiceRecords) + 1,
                       user_id |-> req[w].current_user.id]}
    /\ UNCHANGED <<now, users, textRecords, objectStore, started>>
    /\ UNCHANGED services

\* STEP 4: transcription; a provider failure propagates to the caller
Transcribe(w) ==
    /\ req[w].kind = "voice"
    /\ req[w].pc = "transcribe"
    /\ \/ \E language \in Languages :
            Continue(w, [req[w] EXCEPT !.pc = "summarize", !.language = language])
       \/ Finish(w, req[w], 500, Detail("transcription failed"), {})
    /\ UNCHANGED <<now, users, voiceRecords, textRecords, objectStore, started>>
    /\ UNCHANGED services

\* services/ollama_service.py: the parsed answer, or the placeholder when
\* the provider call raises (the exception is caught, never re-raised)
analyze_transcript(ok) ==
    IF ok
    THEN [summary |-> "parsed", action_items |-> "parsed", full_analysis |-> "raw"]
    ELSE [summary |-> "placeholder", action_items |-> "empty", full_analysis |-> "error"]

\* variant: a failure of the summarization provider reaches the caller
Summarize_raises(w) ==
    /\ req[w].kind = "voice"
    /\ req[w].pc = "summarize"
    /\ \/ Continue(w, [req[w] EXCEPT !.pc = "persist",
                                      !.result = analyze_transcript(TRUE)])
       \/ Finish(w, req[w], 500, Detail("summarization failed"), {})
    /\ UNCHANGED <<now, users, voiceRecords, textRecords, objectStore, started>>
    /\ UNCHANGED services

\* STEP 5: summarization
Summarize(w) ==
    /\ req[w].kind = "voice"
    /\ req[w].pc = "summarize"
    /\ \E ok \in BOOLEAN :
          Continue(w, [req[w] EXCEPT !.pc = "persist",
                                    !.result = analyze_transcript(ok)])
    /\ UNCHANGED <<now, users, voiceRecords, textRecords, objectStore, started>>
    /\ UNCHANGED services

\* the id the database gives the next document of a collection
NewId(records) ==
    IF records = {}
    THEN 1
    ELSE 1 + (CHOOSE i \in {d.id : d \in records} : \A d \in records : d.id <= i)

\* of the record's fields the model keeps the identifier, the owner and
\* the creation time, a logical time that grows with each insert
VoiceAnalysis(r, id) ==
    [id |-> id, user_id |-> r.current_user.id, created_at |-> id]

\* STEP 6: save the Voice Analysis Record
Persist(w) ==
    /\ req[w].kind = "voice"
    /\ req[w].pc = "persist"
    /\ LET id == NewId(voiceRecords) IN
         /\ voiceRecords' = voiceRecords \cup {VoiceAnalysis(req[w], id)}
         /\ Continue(w, [req[w] EXCEPT !.pc = "account", !.id = id])
    /\ UNCHANGED <<now, users, textRecords, objectStore, started>>
    /\ UNCHANGED services

VoiceResponse ==
    {"id", "file_name", "audio_url", "duration_seconds", "transcript",
     "summary", "action_items", "language", "created_at"}

\* variant: a request whose summary is the placeholder is not charged
Account_spares_placeholder(w) ==
    /\ req[w].kind = "voice"
    /\ req[w].pc = "account"
    /\ \E t \in Clock :
        /\ now' = t
        /\ LET self == IF req[w].result = analyze_transcript(FALSE)
                       THEN users[req[w].current_user.id]
                       ELSE increment_voice_usage(req[w].current_user,
                                                  req[w].duration_minutes, t)
           IN /\ users' = [users EXCEPT ![self.id] = self]
              /\ Finish(w, req[w], 200, Detail("ok"), VoiceResponse)
    /\ UNCHANGED <<voiceRecords, textRecords, objectStore, started>>
    /\ UNCHANGED services

\* STEP 7 and 8: charge the minutes, save the whole account, answer
Account(w) ==
    /\ req[w].kind = "voice"
    /\ req[w].pc = "account"
    /\ \E t \in Clock :
        /\ now' = t
        /\ LET self == increment_voice_usage(req[w].current_user,
                                             req[w].duration_minutes, t)
           IN /\ users' = [users EXCEPT ![self.id] = self]
              /\ Finish(w, req[w], 200, Detail("ok"), VoiceResponse)
    /\ UNCHANGED <<voiceRecords, textRecords, objectStore, started>>
    /\ UNCHANGED services

\* ------------------------------------------------------- routers/text.py
\* variant: the length cap applies to every plan
TextGuards_caps_every_plan(text, plan) ==
    IF text.blank
    THEN 400
    ELSE IF text.len > MaxTextLength THEN 403 ELSE 200

\* the two guards of analyze_text: the status they raise, 200 when they pass
TextGuards(text, plan) ==
    IF text.blank
    THEN 400
    ELSE IF text.len > MaxTextLength /\ plan = "free" THEN 403 ELSE 200

\* POST /api/text/analyze arrives: the account is loaded, then the two
\* guards of analyze_text
ValidateText(w) ==
    /\ Free(w)
    /\ started < MaxRequests
    /\ \E a \in Accounts, text \in TextInputs :
          LET r == [get_current_user(a, "text") EXCEPT !.text = text]
              status == TextGuards(text, r.current_user.plan)
          IN IF status = 400
             THEN Finish(w, r, 400, Detail("Text cannot be empty"), {})
             ELSE IF status = 403
                  THEN Finish(w, r, 403, Detail("Text too long"), {})
                  ELSE Continue(w, [r EXCEPT !.pc = "summarize"])
    /\ started' = started + 1
    /\ UNCHANGED <<now, users, voiceRecords, textRecords, objectStore>>
    /\ UNCHANGED services

SummarizeText(w) ==
    /\ req[w].kind = "text"
    /\ req[w].pc = "summarize"
    /\ \E ok \in BOOLEAN :
          Continue(w, [req[w] EXCEPT !.pc = "persist",
                                    !.result = analyze_transcript(ok)])
    /\ UNCHANGED <<now, users, voiceRecords, textRecords, objectStore, started>>
    /\ UNCHANGED services

TextAnalysis(r, id) ==
    [id |-> id, user_id |-> r.current_user.id, created_at |-> id]

TextResponse == {"id", "summary", "action_items", "character_count", "analyzed_at"}

\* save the Text Analysis Record and answer; the handler ends here
PersistText(w) ==
    /\ req[w].kind = "text"
    /\ req[w].pc = "persist"
    /\ LET id == NewId(textRecords) IN
         /\ textRecords' = textRecords \cup {TextAnalysis(req[w], id)}
         /\ Finish(w, [req[w] EXCEPT !.id = id], 200, Detail("ok"), TextResponse)
    /\ UNCHANGED <<now, users, voiceRecords, objectStore, started>>
    /\ UNCHANGED services

\* ------------------------------------------------------- routers/auth.py
\* GET /api/auth/me arrives
BeginMe(w) ==
    /\ Free(w)
    /\ started < MaxRequests
    /\ \E a \in Accounts :
          Continue(w, [get_current_user(a, "me") EXCEPT !.pc = "save"])
    /\ started' = started + 1
    /\ UNCHANGED <<now, users, voiceRecords, textRecords, objectStore>>
    /\ UNCHANGED services

\* reset_usage_if_needed on the request's copy, then save the whole account
get_current_user_info(w) ==
    /\ req[w].kind = "me"
    /\ req[w].pc = "save"
    /\ \E t \in Clock :
        /\ now' = t
        /\ LET self == reset_usage_if_needed(req[w].current_user, t)
           IN /\ users' = [users EXCEPT ![self.id] = self]
              /\ Finish(w, req[w], 200, Detail("ok"), {"usage", "limits"})
    /\ UNCHANGED <<voiceRecords, textRecords, objectStore, started>>
    /\ UNCHANGED services

Next ==
    \/ \E w \in Workers : Validate(w)
    \/ \E w \in Workers : Store(w)
    \/ \E w \in Workers : Admit(w)
    \/ \E w \in Workers : Transcribe(w)
    \/ \E w \in Workers : Summarize(w)
    \/ \E w \in Workers : Persist(w)
    \/ \E w \in Workers : Account(w)
    \/ \E w \in Workers : ValidateText(w)
    \/ \E w \in Workers : SummarizeText(w)
    \/ \E w \in Workers : PersistText(w)
    \/ \E w \in Workers : BeginMe(w)
    \/ \E w \in Workers : get_current_user_info(w)

Spec == Init /\ [][Next]_vars

\* ======================================================================
\* The history store: the listing, get and delete handlers of
\* routers/voice.py and routers/text.py over the two collections.  The
\* collections start as submissions have left them; a document is kept
\* with its identifier, its owner and its creation time (created_at of a
\* VoiceAnalysis, analyzed_at of a TextAnalysis), which the ingestion
\* handlers above never read.
\* ======================================================================
HistoryLimit == 20      \* .limit(20)
MaxExtra == 2           \* documents an owner holds beyond the listing's limit

Owners == {"alice", "bob"}
\* creation times grow with the identifier, fall with it, or tie in pairs
Orders == {"rising", "falling", "tied"}

Stamp(i, n, order) ==
    CASE order = "rising" -> i
      [] order = "falling" -> n + 1 - i
      [] OTHER -> (i + 1) \div 2

\* a collection of nB documents of bob followed by nA documents of alice
Documents(nA, nB, order) ==
    { [id |-> i,
       user_id |-> IF i <= nB THEN "bob" ELSE "alice",
       created_at |-> Stamp(i, nA + nB, order)] : i \in 1..(nA + nB) }

Full(order) == Documents(HistoryLimit + MaxExtra, 1, order)
Small(order) == Documents(1, 1, order)

\* the identifiers asked for: bob's document, alice's first, alice's last
\* in a full collection, and one that no document has
AnalysisIds == {1, 2, HistoryLimit + MaxExtra + 1, HistoryLimit + MaxExtra + 2}

InitHistory ==
    /\ now = 0
    /\ users = [a \in Owners |-> User(a, "free", 0, 0, 0)]
    /\ \E order \in Orders :
          \/ voiceRecords = Full(order) /\ textRecords = Small(order)
          \/ voiceRecords = Small(order) /\ textRecords = Full(order)
          \/ voiceRecords = {} /\ textRecords = {}
    /\ objectStore = 0
    /\ req = [w \in Workers |-> IdleReq]
    /\ resp = NoResponse
    /\ started = 0
    /\ parser = NoCall
    /\ scratch = [w \in Workers |-> NoTranscription]
    /\ tempfiles = {}

\* Document.get(analysis_id): the documents with that identifier
Get(records, analysis_id) == {d \in records : d.id = analysis_id}

\* variant: a document of another account is reported as missing
Authorize_conflates(records, analysis_id, user_id) ==
    IF Get(records, analysis_id) = {}
    THEN 404
    ELSE IF \E d \in Get(records, analysis_id) : d.user_id # user_id
         THEN 404
         ELSE 200

\* the two checks of the get and delete handlers: the status they raise,
\* 200 when they pass
Authorize(records, analysis_id, user_id) ==
    IF Get(records, analysis_id) = {}
    THEN 404
    ELSE IF \E d \in Get(records, analysis_id) : d.user_id # user_id
         THEN 403
         ELSE 200

\* d comes before e in a listing sorted by creation time, newest first;
\* the order of documents created at the same time is the database's choice
Before(d, e, tie) ==
    \/ d.created_at > e.created_at
    \/ d.created_at = e.created_at /\ (IF tie THEN d.id <= e.id ELSE d.id >= e.id)

RECURSIVE Sort(_, _)
Sort(S, tie) ==
    IF S = {}
    THEN <<>>
    ELSE LET first == CHOOSE d \in S : \A e \in S : Before(d, e, tie)
         IN <<first>> \o Sort(S \ {first}, tie)

Limit(list, n) == SubSeq(list, 1, IF Len(list) < n THEN Len(list) ELSE n)

\* variant: the listing is not restricted to the caller's documents
History_of_everyone(records, user_id, tie) ==
    Limit(Sort(records, tie), HistoryLimit)

\* find(user_id == ...).sort(-created_at).limit(20).to_list()
History(records, user_id, tie) ==
    Limit(Sort({d \in records : d.user_id = user_id}, tie), HistoryLimit)

\* a list as the body of a response
Listing(list) == {[rank |-> i, doc |-> list[i]] : i \in 1..Len(list)}

\* GET /{analysis_id} and the checks of DELETE /{analysis_id}
Checked(w, r, records, next) ==
    LET status == Authorize(records, r.id, r.current_user.id) IN
    IF status = 404
    THEN Finish(w, r, 404, Detail("Analysis not found"), {})
    ELSE IF status = 403
         THEN Finish(w, r, 403, Detail("Not authorized"), {})
         ELSE IF next = "return"
              THEN Finish(w, r, 200, Detail("ok"),
                          Listing(<<CHOOSE d \in Get(records, r.id) : TRUE>>))
              ELSE Continue(w, [r EXCEPT !.pc = next])

\* a request of account a for the analysis analysis_id arrives
Arrive(a, kind, analysis_id) ==
    [IdleReq EXCEPT !.kind = kind, !.current_user = users[a], !.id = analysis_id]

get_voice_history(w) ==
    /\ Free(w)
    /\ started < MaxRequests
    /\ \E a \in Owners, tie \in BOOLEAN :
          Finish(w, Arrive(a, "voice_history", 0), 200, Detail("ok"),
                 Listing(History(voiceRecords, a, tie)))
    /\ started' = started + 1
    /\ UNCHANGED <<now, users, voiceRecords, textRecords, objectStore>>
    /\ UNCHANGED services

get_voice_analysis(w) ==
    /\ Free(w)
    /\ started < MaxRequests
    /\ \E a \in Owners, analysis_id \in AnalysisIds :
          Checked(w, Arrive(a, "get_voice", analysis_id), voiceRecords, "return")
    /\ started' = started + 1
    /\ UNCHANGED <<now, users, voiceRecords, textRecords, objectStore>>
    /\ UNCHANGED services

\* DELETE /api/voice/{analysis_id}: the document is loaded and checked
delete_voice_analysis(w) ==
    /\ Free(w)
    /\ started < MaxRequests
    /\ \E a \in Owners, analysis_id \in AnalysisIds :
          Checked(w, Arrive(a, "delete_voice", analysis_id), voiceRecords, "delete")
    /\ started' = started + 1
    /\ UNCHANGED <<now, users, voiceRecords, textRecords, objectStore>>
    /\ UNCHANGED services

\* variant: the delete takes all the documents of the owner with it
DeleteVoice_of_owner(w) ==
    /\ req[w].kind = "delete_voice"
    /\ req[w].pc = "delete"
    /\ voiceRecords' = {d \in voiceRecords : d.user_id # req[w].current_user.id}
    /\ Finish(w, req[w], 200, Detail("Voice analysis deleted successfully"), {})
    /\ UNCHANGED <<now, users, textRecords, objectStore, started>>
    /\ UNCHANGED services

\* await analysis.delete(), then the answer
DeleteVoice(w) ==
    /\ req[w].kind = "delete_voice"
    /\ req[w].pc = "delete"
    /\ voiceRecords' = voiceRecords \ Get(voiceRecords, req[w].id)
    /\ Finish(w, req[w], 200, Detail("Voice analysis deleted successfully"), {})
    /\ UNCHANGED <<now, users, textRecords, objectStore, started>>
    /\ UNCHANGED services

get_text_history(w) ==
    /\ Free(w)
    /\ started < MaxRequests
    /\ \E a \in Owners, tie \in BOOLEAN :
          Finish(w, Arrive(a, "text_history", 0), 200, Detail("ok"),
                 Listing(History(textRecords, a, tie)))
    /\ started' = started + 1
    /\ UNCHANGED <<now, users, voiceRecords, textRecords, objectStore>>
    /\ UNCHANGED services

get_text_analysis(w) ==
    /\ Free(w)
    /\ started < MaxRequests
    /\ \E a \in Owners, analysis_id \in AnalysisIds :
          Checked(w, Arrive(a, "get_text", analysis_id), textRecords, "return")
    /\ started' = started + 1
    /\ UNCHANGED <<now, users, voiceRecords, textRecords, objectStore>>
    /\ UNCHANGED services

\* DELETE /api/text/{analysis_id}: the document is loaded and checked
delete_text_analysis(w) ==
    /\ Free(w)
    /\ started < MaxRequests
    /\ \E a \in Owners, analysis_id \in AnalysisIds :
          Checked(w, Arrive(a, "delete_text", analysis_id), textRecords, "delete")
    /\ started' = started + 1
    /\ UNCHANGED <<now, users, voiceRecords, textRecords, objectStore>>
    /\ UNCHANGED services

\* await analysis.delete(), then the answer
DeleteText(w) ==
    /\ req[w].kind = "delete_text"
    /\ req[w].pc = "delete"
    /\ textRecords' = textRecords \ Get(textRecords, req[w].id)
    /\ Finish(w, req[w], 200, Detail("Analysis deleted successfully"), {})
    /\ UNCHANGED <<now, users, voiceRecords, objectStore, started>>
    /\ UNCHANGED services

NextHistory ==
    \/ \E w \in Workers : get_voice_history(w)
    \/ \E w \in Workers : get_voice_analysis(w)
    \/ \E w \in Workers : delete_voice_analysis(w)
    \/ \E w \in Workers : DeleteVoice(w)
    \/ \E w \in Workers : get_text_history(w)
    \/ \E w \in Workers : get_text_analysis(w)
    \/ \E w \in Workers : delete_text_analysis(w)
    \/ \E w \in Workers : DeleteText(w)

SpecHistory == InitHistory /\ [][NextHistory]_vars

\* ======================================================================
\* The ingestion pipelines and the history endpoints on one database:
\* records are submitted by alice, and read, listed and deleted by alice
\* and by bob.
\* ======================================================================
InitLedger ==
    /\ now = 0
    /\ users \in { [a \in Owners |->
                      IF a \in Accounts
                      THEN User(a, u[1], u[2], u[3], 0)
                      ELSE User(a, "free", 0, 0, 0)] : u \in InitAccounts }
    /\ voiceRecords = {}
    /\ textRecords = {}
    /\ objectStore = 0
    /\ req = [w \in Workers |-> IdleReq]
    /\ resp = NoResponse
    /\ started = 0
    /\ parser = NoCall
    /\ scratch = [w \in Workers |-> NoTranscription]
    /\ tempfiles = {}

NextLedger ==
    \/ \E w \in Workers : Validate(w)
    \/ \E w \in Workers : Store(w)
    \/ \E w \in Workers : Admit(w)
    \/ \E w \in Workers : Transcribe(w)
    \/ \E w \in Workers : Summarize(w)
    \/ \E w \in Workers : Persist(w)
    \/ \E w \in Workers : Account(w)
    \/ \E w \in Workers : ValidateText(w)
    \/ \E w \in Workers : SummarizeText(w)
    \/ \E w \in Workers : PersistText(w)
    \/ \E w \in Workers : get_voice_history(w)
    \/ \E w \in Workers : get_voice_analysis(w)
    \/ \E w \in Workers : delete_voice_analysis(w)
    \/ \E w \in Workers : DeleteVoice(w)
    \/ \E w \in Workers : get_text_history(w)
    \/ \E w \in Workers : get_text_analysis(w)
    \/ \E w \in Workers : delete_text_analysis(w)
    \/ \E w \in Workers : DeleteText(w)

SpecLedger == InitLedger /\ [][NextLedger]_vars

\* ======================================================================
\* services/ollama_service.py: analyze_transcript, its parser taken line
\* by line.  A response is the sequence of its lines (split('\n')), a line
\* the sequence of its characters; "S" stands for the word SUMMARY in any
\* case, "A" for the word ACTION, "x" and "y" for other text.
\* ======================================================================
MaxLines == 4           \* lines of a provider response

Bullets == {"-", "*"}
Whitespace == {" "}
Lines ==
    { <<>>,                         \* an empty line
      <<"S">>,                      \* SUMMARY:
      <<"A">>,                      \* ACTION ITEMS:
      <<"-", " ", "x">>,            \* - x
      <<" ", "*", " ", "y", " ">>,  \* an indented bullet with a trailing blank
      <<"-", " ", "A", "x">>,       \* a bullet whose text has the word action
      <<"-", " ">>,                 \* a bullet without text
      <<"x">> }                     \* text that is no bullet

RECURSIVE Responses(_)
Responses(n) ==
    IF n = 0
    THEN {}
    ELSE {<<l>> : l \in Lines}
            \cup {<<l>> \o r : l \in Lines, r \in Responses(n - 1)}

RECURSIVE lstrip(_, _)
lstrip(line, chars) ==
    IF line # <<>> /\ Head(line) \in chars THEN lstrip(Tail(line), chars) ELSE line

RECURSIVE rstrip(_, _)
rstrip(line, chars) ==
    IF line # <<>> /\ line[Len(line)] \in chars
    THEN rstrip(SubSeq(line, 1, Len(line) - 1), chars)
    ELSE line

strip(line) == rstrip(lstrip(line, Whitespace), Whitespace)

\* 'SUMMARY' in line.upper()
Contains(line, word) == \E i \in 1..Len(line) : line[i] = word

\* line.startswith('-') and the like
startswith(line, chars) == line # <<>> /\ line[1] \in chars

\* strip() of a text of several lines: the blank lines at both ends go,
\* and the blanks before its first and after its last character
RECURSIVE DropBlank(_)
DropBlank(text) ==
    IF text # <<>> /\ strip(Head(text)) = <<>> THEN DropBlank(Tail(text)) ELSE text

RECURSIVE DropBlankEnd(_)
DropBlankEnd(text) ==
    IF text # <<>> /\ strip(text[Len(text)]) = <<>>
    THEN DropBlankEnd(SubSeq(text, 1, Len(text) - 1))
    ELSE text

StripText(text) ==
    LET t == DropBlankEnd(DropBlank(text)) IN
    IF t = <<>>
    THEN <<>>
    ELSE IF Len(t) = 1
         THEN <<strip(t[1])>>
         ELSE <<lstrip(t[1], Whitespace)>>
                 \o SubSeq(t, 2, Len(t) - 1)
                 \o <<rstrip(t[Len(t)], Whitespace)>>

InitParser ==
    /\ now = 0
    /\ users = [a \in Accounts |-> User(a, "free", 0, 0, 0)]
    /\ voiceRecords = {}
    /\ textRecords = {}
    /\ objectStore = 0
    /\ req = [w \in Workers |-> IdleReq]
    /\ resp = NoResponse
    /\ started = 0
    /\ parser = NoCall
    /\ scratch = [w \in Workers |-> NoTranscription]
    /\ tempfiles = {}

pipeline == <<now, users, voiceRecords, textRecords, objectStore, req, resp, started>>

\* the provider call: it answers with a text or raises, and a call that
\* raises returns the placeholder
Complete ==
    /\ parser.pc = "idle"
    /\ \/ \E analysis \in Responses(MaxLines) :
            parser' = [NoCall EXCEPT !.pc = "scan", !.analysis = analysis, !.line = 1]
       \/ parser' = [NoCall EXCEPT !.pc = "returned",
                                   !.summary = <<<<"unavailable">>>>,
                                   !.full_analysis = <<<<"Error">>>>]
    /\ UNCHANGED <<pipeline, scratch, tempfiles>>

\* one turn of the loop over the lines
Scan ==
    /\ parser.pc = "scan"
    /\ parser.line <= Len(parser.analysis)
    /\ LET line == strip(parser.analysis[parser.line])
           next == [parser EXCEPT !.line = @ + 1]
       IN parser' =
            IF Contains(line, "S")
            THEN [next EXCEPT !.current_section = "summary"]
            ELSE IF Contains(line, "A")
                 THEN [next EXCEPT !.current_section = "action"]
                 ELSE IF startswith(line, Bullets)
                      THEN IF parser.current_section = "summary"
                           THEN [next EXCEPT !.summary = Append(@, line)]
                           ELSE IF parser.current_section = "action"
                                THEN LET item == strip(lstrip(line, Bullets \cup Whitespace))
                                     IN IF item # <<>>
                                        THEN [next EXCEPT !.action_items = Append(@, item)]
                                        ELSE next
                                ELSE next
                      ELSE next
    /\ UNCHANGED <<pipeline, scratch, tempfiles>>

\* the fallback and the return
Return ==
    /\ parser.pc = "scan"
    /\ parser.line > Len(parser.analysis)
    /\ parser' = [parser EXCEPT
                    !.pc = "returned",
                    !.summary = IF @ = <<>> THEN StripText(parser.analysis) ELSE @,
                    !.full_analysis = parser.analysis]
    /\ UNCHANGED <<pipeline, scratch, tempfiles>>

NextParser == Complete \/ Scan \/ Return

SpecParser == InitParser /\ [][NextParser]_vars

\* ======================================================================
\* services/whisper_service.py: transcribe_audio and its scratch file.
\* The calls of two requests interleave at the awaits; tempfiles is the
\* set of the scratch files that exist.
\* ======================================================================
MaxFiles == 2           \* names the temporary directory hands out

FileNames == 1..MaxFiles
Failures == {"read", "write", "provider", "extract"}

InitWhisper ==
    /\ now = 0
    /\ users = [a \in Accounts |-> User(a, "free", 0, 0, 0)]
    /\ voiceRecords = {}
    /\ textRecords = {}
    /\ objectStore = 0
    /\ req = [w \in Workers |-> IdleReq]
    /\ resp = NoResponse
    /\ started = 0
    /\ parser = NoCall
    /\ scratch = [w \in Workers |-> NoTranscription]
    /\ tempfiles = {}

\* a statement of the try block: it passes on to the next one or raises
\* and control goes to the finally clause
Statement(w, pc, next, failure) ==
    /\ scratch[w].pc = pc
    /\ \/ scratch' = [scratch EXCEPT ![w].pc = next]
       \/ scratch' = [scratch EXCEPT ![w].pc = "finally", ![w].error = failure]
    /\ UNCHANGED <<pipeline, parser, tempfiles>>

\* tempfile.NamedTemporaryFile(delete=False): a file under a name no
\* existing file has
Create(w) ==
    /\ scratch[w].pc = "idle"
    /\ \E f \in FileNames \ tempfiles :
          /\ tempfiles' = tempfiles \cup {f}
          /\ scratch' = [scratch EXCEPT ![w] = [pc |-> "read", temp_file |-> f,
                                                 error |-> "none"]]
    /\ UNCHANGED <<pipeline, parser>>

ReadUpload(w) == Statement(w, "read", "write", "read")

WriteCopy(w) == Statement(w, "write", "send", "write")

SendToProvider(w) == Statement(w, "send", "extract", "provider")

Extract(w) == Statement(w, "extract", "finally", "extract")

\* the finally clause with the file kept after a failure
Cleanup_on_success(w) ==
    /\ scratch[w].pc = "finally"
    /\ tempfiles' = IF scratch[w].error = "none"
                    THEN tempfiles \ {scratch[w].temp_file}
                    ELSE tempfiles
    /\ scratch' = [scratch EXCEPT ![w].pc = "done"]
    /\ UNCHANGED <<pipeline, parser>>

\* the finally clause: the file is unlinked if it exists, and the call ends
Cleanup(w) ==
    /\ scratch[w].pc = "finally"
    /\ tempfiles' = IF scratch[w].temp_file \in tempfiles
                    THEN tempfiles \ {scratch[w].temp_file}
                    ELSE tempfiles
    /\ scratch' = [scratch EXCEPT ![w].pc = "done"]
    /\ UNCHANGED <<pipeline, parser>>

\* the caller has the result or the exception; the worker takes a new call
Ended(w) ==
    /\ scratch[w].pc = "done"
    /\ scratch' = [scratch EXCEPT ![w] = NoTranscription]
    /\ UNCHANGED <<pipeline, parser, tempfiles>>

NextWhisper ==
    \E w \in Workers :
        \/ Create(w)
        \/ ReadUpload(w)
        \/ WriteCopy(w)
        \/ SendToProvider(w)
        \/ Extract(w)
        \/ Cleanup(w)
        \/ Ended(w)

SpecWhisper == InitWhisper /\ [][NextWhisper]_vars

\* ======================================================================
\* Properties
\* ======================================================================
FreePlan(u) == u.plan \notin UnlimitedPlans
SameMonth(t1, t2) == MonthIndex(t1) = MonthIndex(t2)
\* the consumed voice minutes of ledger u as seen at instant t
ConsumedVoice(u, t) ==
    IF SameMonth(u.usage.last_reset, t) THEN u.usage.voice_minutes_used ELSE 0
ConsumedText(u, t) ==
    IF SameMonth(u.usage.last_reset, t) THEN u.usage.comments_analyzed ELSE 0
\* floor division with a minimum of one minute
ExpectedMinutes(d) == IF d < 60 THEN 1 ELSE d \div 60
RecordsWithId(records, id) == {v \in records : v.id = id}
\* worker w takes the step of its request that is at stage pc (every
\* step of a request leaves its stage)
Steps(w, kind, pc) == req[w].pc = pc /\ req[w].kind = kind /\ req'[w].pc # pc
QuotaDenied(r) ==
    r.kind = "voice" /\ r.status = 403 /\ r.detail.msg = "Monthly limit exceeded"

Charge95(w) ==
    /\ Steps(w, "voice", "account")
    /\ req[w].duration_seconds = 95
    /\ FreePlan(req[w].current_user)
    /\ ConsumedVoice(req[w].current_user, now') = 0
    /\ req[w].current_user.limits.voice_minutes_per_month = 30

Success95(w, minutes) ==
    /\ users'[req[w].current_user.id].usage.voice_minutes_used = minutes
    /\ req[w].duration_minutes = minutes
    /\ Cardinality(RecordsWithId(voiceRecords', req[w].id)) = 1
    /\ resp'.status = 200 /\ resp'.id = req[w].id
    /\ {"transcript", "summary", "action_items", "language"} \subseteq resp'.body

\* C2 as stated: the 95-second clip is charged 2 minutes
C2_Original == [][\A w \in Workers : Charge95(w) => Success95(w, 2)]_vars

\* C2: a free account with 0 consumed minutes and limit 30 that submits a
\* 95-second clip is charged 1 minute (95 // 60), its consumed minutes
\* become 1, exactly one record exists for the request and the response
\* carries transcript, summary, action items and language.
C2_Success95 == [][\A w \in Workers : Charge95(w) => Success95(w, 1)]_vars

\* C2 witness: the 95-second request has completed on a fresh account
C2_Witness ==
    /\ resp.kind = "voice" /\ resp.status = 200 /\ resp.duration_seconds = 95
    /\ FreePlan(users[resp.user])
    /\ RecordsWithId(voiceRecords, resp.id) # {}
    /\ users[resp.user].usage = UsageStats(1, 0, 0)

PastAdmit == {"transcribe", "summarize", "persist", "account"}

\* the minutes of every duration up to the longest one considered
MinuteBands ==
    /\ \A d \in 0..MaxDurationSeconds :
          /\ DurationMinutes(d) = ExpectedMinutes(d)
          /\ DurationMinutes(d) >= 1
          /\ (d <= 119 => DurationMinutes(d) = 1)
          /\ (d >= 120 /\ d <= 179 => DurationMinutes(d) = 2)
    /\ DurationSeconds(NoDuration) = 0

\* C3: the minutes are max(1, d // 60): 1 for 0-59 s and 60-119 s, 2 for
\* 120-179 s, never below 1 (whatever duration the upload reports, 0 when
\* it reports none); the value computed at Admit is the one the admission
\* decision uses and the one the Account stage adds.
C3_Minutes ==
    [][\A w \in Workers :
         /\ MinuteBands
         /\ (req'[w].kind = "voice" /\ req'[w].pc \in PastAdmit)
            => req'[w].duration_minutes = ExpectedMinutes(req'[w].duration_seconds)
         /\ (Steps(w, "voice", "admit") /\ FreePlan(req[w].current_user))
            => (req'[w].pc = "transcribe"
                 <=> ConsumedVoice(req[w].current_user, now')
                       + ExpectedMinutes(req[w].duration_seconds)
                       <= req[w].current_user.limits.voice_minutes_per_month)
         /\ Steps(w, "voice", "account")
            => users'[req[w].current_user.id].usage.voice_minutes_used
                 = ConsumedVoice(req[w].current_user, now')
                     + ExpectedMinutes(req[w].duration_seconds)
      ]_vars

\* C3 witness: an admitted clip without a reported duration costs 1 minute
\* while an admitted 120-second clip costs 2
C3_Witness ==
    \E w1, w2 \in Workers :
        /\ req[w1].pc \in PastAdmit /\ req[w1].kind = "voice"
        /\ req[w1].duration_seconds = 0 /\ req[w1].duration_minutes = 1
        /\ req[w2].pc \in PastAdmit /\ req[w2].kind = "voice"
        /\ req[w2].duration_seconds = 120 /\ req[w2].duration_minutes = 2

\* a step of worker w's request that reads the clock and resets the ledger
ResetStep(w) ==
    /\ req[w].pc \in {"admit", "account", "save"}
    /\ req'[w].pc # req[w].pc

\* C4: on a non-unlimited plan check_voice_limit(requested) is true iff
\* consumed + requested <= limit and check_comment_limit is true iff
\* consumed text + 1 <= text limit, consumed being the post-reset value;
\* on the pro and creator plans both are true whatever the numbers.  The
\* checks are taken on the account of a request at each of its steps that
\* read the clock, at the time read.
C4_Admission ==
    [][\A w \in Workers :
         ResetStep(w) =>
           LET u == req[w].current_user
               t == now'
           IN /\ \A requested \in 1..MaxRequested :
                    check_voice_limit(u, requested, t)
                      <=> (u.plan \in {"pro", "creator"}
                           \/ ConsumedVoice(u, t) + requested
                                 <= u.limits.voice_minutes_per_month)
              /\ check_comment_limit(u, t)
                      <=> (u.plan \in {"pro", "creator"}
                           \/ ConsumedText(u, t) + 1 <= u.limits.comments_per_month)
              /\ (Steps(w, "voice", "admit")
                   => (req'[w].pc = "transcribe"
                        <=> check_voice_limit(
                              u, ExpectedMinutes(req[w].duration_seconds), t)))
      ]_vars

\* C4 witness: two requests of a free account at 29 minutes and 20 text
\* analyses stand at Admit: 1 minute passes, 2 minutes and a text analysis
\* do not
C4_Witness ==
    \A w \in Workers :
        /\ req[w].pc = "admit" /\ FreePlan(req[w].current_user)
        /\ ConsumedVoice(req[w].current_user, now) = 29
        /\ check_voice_limit(req[w].current_user, 1, now)
        /\ ~check_voice_limit(req[w].current_user, 2, now)
        /\ ~check_comment_limit(req[w].current_user, now)

\* a text request that has passed the two validation guards
TextPastValidate(r) == r.kind = "text" /\ r.pc \in {"summarize", "persist"}

\* C5: a text request passes a limit check after validation and before
\* summarization; a request of a free account whose consumed text count
\* has reached the monthly limit is never summarized and never persisted.
C5_TextAdmit ==
    [][\A w \in Workers :
         /\ TextPastValidate(req'[w]) => req'[w].checked
         /\ (TextPastValidate(req'[w]) /\ ~TextPastValidate(req[w]))
            => check_comment_limit(req'[w].current_user, now')
         /\ Steps(w, "text", "persist") => req[w].checked
      ]_vars

\* C6: the step that completes a text analysis (its record is persisted
\* and it answers 200) leaves the account's consumed text count one above
\* the post-reset count.
C6_TextAccounting ==
    [][\A w \in Workers :
         (Steps(w, "text", "persist") /\ resp'.status = 200)
         => /\ RecordsWithId(textRecords', resp'.id) # {}
            /\ users'[req[w].current_user.id].usage.comments_analyzed
                 = ConsumedText(req[w].current_user, now') + 1
      ]_vars

\* C7: a voice request that was admitted against a stale copy of the
\* account and commits after another request of the same account has
\* raised the stored usage adds its minutes on top of that usage, so the
\* stored consumed minutes end above the limit.
C7_RaceExceedsLimit ==
    [][\A w \in Workers :
         LET a == req[w].current_user.id IN
         (/\ Steps(w, "voice", "account")
          /\ FreePlan(req[w].current_user)
          /\ SameMonth(users[a].usage.last_reset, now')
          /\ SameMonth(req[w].current_user.usage.last_reset, now')
          /\ users[a].usage.voice_minutes_used
                > req[w].current_user.usage.voice_minutes_used
          /\ users[a].usage.voice_minutes_used + req[w].duration_minutes
                > users[a].limits.voice_minutes_per_month)
         => users'[a].usage.voice_minutes_used
                > users[a].limits.voice_minutes_per_month
      ]_vars

\* C8: the stored usage of every account on a non-unlimited plan stays
\* within 0..limit, for voice minutes and for text analyses.
C8_UsageBound ==
    \A a \in Accounts :
        FreePlan(users[a]) =>
            /\ 0 <= users[a].usage.voice_minutes_used
            /\ users[a].usage.voice_minutes_used
                  <= users[a].limits.voice_minutes_per_month
            /\ 0 <= users[a].usage.comments_analyzed
            /\ users[a].usage.comments_analyzed <= users[a].limits.comments_per_month

\* C8 witness: two voice requests of one free account have both been
\* persisted and charged and the stored usage stands at the limit
C8_Witness ==
    \E a \in Accounts :
        /\ FreePlan(users[a])
        /\ users[a].usage.voice_minutes_used = users[a].limits.voice_minutes_per_month
        /\ Cardinality({v \in voiceRecords : v.user_id = a}) = 2
        /\ \A w \in Workers : req[w].pc = "idle"
        /\ resp.kind = "voice" /\ resp.status = 200

\* C9: a limit check or an increment that runs in a month other than the
\* ledger's last-reset month first zeroes both counters and sets last-reset
\* to now: the check then admits whatever the old usage was, and the first
\* increment stored in the new month leaves exactly the request's minutes.
C9_ResetFirst ==
    [][\A w \in Workers :
         LET a == req[w].current_user.id IN
         /\ (Steps(w, "voice", "admit")
              /\ ~SameMonth(req[w].current_user.usage.last_reset, now'))
            => /\ req'[w].pc = "transcribe"
               /\ req'[w].current_user.usage = UsageStats(0, 0, now')
         /\ (Steps(w, "voice", "account")
              /\ ~SameMonth(users[a].usage.last_reset, now'))
            => users'[a].usage
                 = UsageStats(req[w].duration_minutes, 0,
                              IF SameMonth(req[w].current_user.usage.last_reset, now')
                              THEN req[w].current_user.usage.last_reset
                              ELSE now')
      ]_vars

\* C9 witness: an account that stood at its limit of 30 minutes (and 20
\* text analyses) in December holds, after a two-minute clip in January,
\* exactly 2 minutes, no text analyses and a January last-reset
C9_Witness ==
    \E a \in Accounts :
        /\ FreePlan(users[a])
        /\ resp.kind = "voice" /\ resp.status = 200 /\ resp.duration_seconds = 120
        /\ Cardinality({v \in voiceRecords : v.user_id = a}) = 2
        /\ users[a].usage.voice_minutes_used = 2
        /\ users[a].usage.comments_analyzed = 0
        /\ ~SameMonth(users[a].usage.last_reset, 0)

\* C10: a second reset_usage_if_needed in the same calendar month as the
\* first changes nothing, and a call in the month of last-reset changes
\* nothing.  The resets are taken on the account of a request at each of
\* its steps that read the clock, the first at the time read, the second
\* then or later.
C10_ResetIdempotent ==
    [][\A w \in Workers :
         ResetStep(w) =>
           LET u == req[w].current_user
               t1 == now'
           IN /\ \A t2 \in t1..MaxTime :
                    (Month(t1) = Month(t2) /\ Year(t1) = Year(t2))
                    => reset_usage_if_needed(reset_usage_if_needed(u, t1), t2)
                         = reset_usage_if_needed(u, t1)
              /\ (Month(t1) = Month(u.usage.last_reset)
                   /\ Year(t1) = Year(u.usage.last_reset))
                 => reset_usage_if_needed(u, t1) = u
              /\ Steps(w, "me", "save")
                 => users'[u.id] = reset_usage_if_needed(u, t1)
      ]_vars

\* C10 witness: a request whose copy was reset in January, at an instant
\* that has a later one in the same month, is about to call the reset
\* again in its increment
C10_Witness ==
    \E w \in Workers :
        /\ req[w].kind = "voice" /\ req[w].pc = "account"
        /\ req[w].current_user.usage = UsageStats(0, 0, now)
        /\ ~SameMonth(users[req[w].current_user.id].usage.last_reset, now)
        /\ users[req[w].current_user.id].usage.voice_minutes_used > 0
        /\ \E t \in Clock : t > now /\ SameMonth(t, now)

\* what analyze_transcript returns when the provider call fails
Placeholder ==
    [summary |-> "placeholder", action_items |-> "empty", full_analysis |-> "error"]

\* C11: when the summarization provider fails analyze_transcript returns,
\* never raises, the placeholder summary, an empty action-item list and
\* the error text; the voice request then still persists its record and
\* is still charged its minutes.
C11_SummarizeMasked ==
    [][\A w \in Workers :
         /\ analyze_transcript(FALSE) = Placeholder
         /\ Steps(w, "voice", "summarize")
            => /\ req'[w].pc = "persist"
               /\ resp' = NoResponse
               /\ req'[w].result \in {analyze_transcript(TRUE), Placeholder}
         /\ (Steps(w, "voice", "persist") /\ req[w].result = Placeholder)
            => /\ req'[w].pc = "account"
               /\ Cardinality(voiceRecords') = Cardinality(voiceRecords) + 1
               /\ RecordsWithId(voiceRecords', req'[w].id) # {}
         /\ (Steps(w, "voice", "account") /\ req[w].result = Placeholder)
            => /\ users'[req[w].current_user.id].usage.voice_minutes_used
                    = ConsumedVoice(req[w].current_user, now')
                        + ExpectedMinutes(req[w].duration_seconds)
               /\ resp'.status = 200
               /\ resp'.summary = "placeholder"
      ]_vars

\* C11 witness: a request whose summarization failed has persisted its
\* record and stands before the Account stage
C11_Witness ==
    \E w \in Workers :
        /\ req[w].kind = "voice" /\ req[w].pc = "account"
        /\ req[w].result = Placeholder
        /\ RecordsWithId(voiceRecords, req[w].id) # {}

\* the stage that follows each stage of analyze_voice
VoiceNext(pc) ==
    CASE pc = "idle" -> "store"
      [] pc = "store" -> "admit"
      [] pc = "admit" -> "transcribe"
      [] pc = "transcribe" -> "summarize"
      [] pc = "summarize" -> "persist"
      [] pc = "persist" -> "account"
      [] OTHER -> "idle"

\* worker w takes a step of a voice request, its arrival included
VoiceStep(w) ==
    \/ req[w].kind = "voice" /\ req'[w].pc # req[w].pc
    \/ req[w].pc = "idle" /\ req'[w].kind = "voice"
    \/ req[w].pc = "idle" /\ started' # started /\ resp'.kind = "voice"

C13_Original ==
    \A w \in Workers :
        (req[w].kind = "voice" /\ req[w].result = Placeholder)
            => req[w].pc \notin {"persist", "account"}

\* C13: a failure in the Summarize stage leaves the uploaded audio in the
\* object store (nothing deletes from it) and, being masked by the
\* placeholder, does not end the request: the request goes on to Persist
\* and Account and its minutes are charged.
C13_SummarizeContained ==
    [][/\ objectStore' >= objectStore
       /\ \A w \in Workers :
            /\ (Steps(w, "voice", "summarize") /\ req'[w].result = Placeholder)
               => /\ objectStore >= 1 /\ objectStore' = objectStore
                  /\ users' = users
                  /\ req'[w].pc = "persist"
            /\ (Steps(w, "voice", "account") /\ req[w].result = Placeholder)
               => /\ objectStore >= 1 /\ objectStore' = objectStore
                  /\ users'[req[w].current_user.id].usage.voice_minutes_used
                       >= ExpectedMinutes(req[w].duration_seconds)
                  /\ users'[req[w].current_user.id].usage.voice_minutes_used
                       = ConsumedVoice(req[w].current_user, now')
                           + req[w].duration_minutes
      ]_vars

\* C13 witness: a request whose summarization failed has completed: its
\* upload is in the object store and its two minutes are charged
C13_Witness ==
    /\ resp.kind = "voice" /\ resp.status = 200
    /\ resp.summary = "placeholder" /\ resp.duration_seconds = 120
    /\ objectStore = 1
    /\ users[resp.user].usage = UsageStats(2, 0, 0)

\* a request that was rejected by the guards at its arrival
ValidationError(r) ==
    \/ r.kind = "voice" /\ r.status = 400
    \/ r.kind = "text" /\ r.status \in {400, 403}

\* C14: a voice submission whose media type is not audio and a text
\* submission that is empty or, on the free plan, too long are rejected
\* before any upload, transcription or summarization and leave the
\* records and the usage ledger unchanged.
C14_ValidationNoEffect ==
    [][\A w \in Workers :
         (req[w].pc = "idle" /\ started' # started /\ ValidationError(resp'))
         => /\ req'[w] = IdleReq
            /\ objectStore' = objectStore
            /\ voiceRecords' = voiceRecords
            /\ textRecords' = textRecords
            /\ users' = users
            /\ resp'.id = 0 /\ resp'.summary = "none"
      ]_vars

\* C14 witness: a non-audio upload has been rejected: nothing is in the
\* object store, no record exists and the usage is untouched
C14_Witness ==
    /\ resp.kind = "voice" /\ resp.status = 400
    /\ resp.detail.msg = "File must be audio"
    /\ objectStore = 0 /\ voiceRecords = {} /\ textRecords = {}
    /\ users[resp.user].usage = UsageStats(29, 20, 0)
    /\ started = 1

Plans == {"free", "pro", "creator"}

\* C15: a non-empty text of more than 10,000 characters is rejected iff
\* the plan is free and proceeds to summarization on pro and creator; a
\* text of exactly 10,000 characters proceeds on every plan; the rejection
\* of an empty text is an outcome different from the too-long rejection.
C15_TextCap ==
    [][\A w \in Workers :
         (req[w].pc = "idle" /\ started' # started
            /\ (req'[w].kind = "text" \/ resp'.kind = "text"))
         => /\ \A plan \in Plans :
                 /\ TextGuards([len |-> MaxTextLength + 1, blank |-> FALSE], plan) = 403
                       <=> plan = "free"
                 /\ TextGuards([len |-> MaxTextLength + 1, blank |-> FALSE], plan) = 200
                       <=> plan \in {"pro", "creator"}
                 /\ TextGuards([len |-> MaxTextLength, blank |-> FALSE], plan) = 200
                 /\ TextGuards([len |-> 0, blank |-> TRUE], plan) = 400
            /\ req'[w].kind = "text"
               => /\ req'[w].pc = "summarize"
                  /\ ~req'[w].text.blank
                  /\ (req'[w].text.len <= 10000 \/ req'[w].current_user.plan # "free")
                  /\ resp' = NoResponse
            /\ resp'.kind = "text"
               => /\ req'[w] = IdleReq
                  /\ resp'.status \in {400, 403}
                  /\ resp'.status = 403
                       <=> resp'.detail.msg = "Text too long"
                  /\ resp'.status = 400
                       <=> resp'.detail.msg = "Text cannot be empty"
                  /\ resp'.status = 403 => users[resp'.user].plan = "free"
      ]_vars

\* C15 witness: a text of 10,001 characters of a pro account stands before
\* summarization
C15_Witness ==
    \E w \in Workers :
        /\ req[w].kind = "text" /\ req[w].pc = "summarize"
        /\ req[w].text.len = 10001
        /\ req[w].current_user.plan = "pro"

\* the collection a history, get or delete request of that kind works on
CollectionOf(kind) ==
    IF kind \in {"voice_history", "get_voice", "delete_voice"}
    THEN voiceRecords
    ELSE textRecords

\* a request arrives at worker w
Arrival(w) == req[w].pc = "idle" /\ started' # started

\* C16: on get and delete, of voice and of text records, the outcome for a
\* record id and a requesting account is not-found iff no record has the
\* id, forbidden iff the record exists and belongs to another account, and
\* success iff it exists and belongs to the requester; the existence check
\* comes first, and the two errors are different outcomes.
C16_Ownership ==
    [][\A w \in Workers :
         Arrival(w) =>
           /\ \A records \in {voiceRecords, textRecords} :
                \A id \in AnalysisIds : \A a \in Owners :
                   LET exists == \E d \in records : d.id = id
                       owned == \E d \in records : d.id = id /\ d.user_id = a
                   IN /\ Authorize(records, id, a) = 404 <=> ~exists
                      /\ Authorize(records, id, a) = 403 <=> (exists /\ ~owned)
                      /\ Authorize(records, id, a) = 200 <=> owned
           /\ (resp'.kind \in {"get_voice", "get_text"} /\ resp'.status = 200)
              => \E d \in CollectionOf(resp'.kind) :
                    /\ d.id = resp'.id /\ d.user_id = resp'.user
                    /\ resp'.body = {[rank |-> 1, doc |-> d]}
           /\ req'[w].pc = "delete"
              => \E d \in CollectionOf(req'[w].kind) :
                    d.id = req'[w].id /\ d.user_id = req'[w].current_user.id
           /\ resp'.status = 404 <=> resp'.detail.msg = "Analysis not found"
           /\ resp'.status = 403 <=> resp'.detail.msg = "Not authorized"
           /\ resp'.status = 403
              => \E d \in CollectionOf(resp'.kind) : d.user_id # resp'.user
      ]_vars

\* C16 witness: alice has been refused bob's text analysis, which is still
\* in the store
C16_Witness ==
    /\ resp.kind = "get_text" /\ resp.status = 403 /\ resp.user = "alice"
    /\ \E d \in textRecords : d.id = 1 /\ d.user_id = "bob"

\* C17: the history listing of an account holds only records of that
\* account, newest first, at most 20 of them, and these are the most
\* recently created ones that are still present.
C17_History ==
    [][\A w \in Workers :
         (Arrival(w) /\ resp'.kind \in {"voice_history", "text_history"})
         => LET owned == {d \in CollectionOf(resp'.kind) : d.user_id = resp'.user}
                listed == {e.doc : e \in resp'.body}
                n == Cardinality(resp'.body)
            IN /\ resp'.status = 200
               /\ listed \subseteq owned
               /\ {e.rank : e \in resp'.body} = 1..n
               /\ Cardinality(listed) = n
               /\ n <= 20
               /\ n = (IF Cardinality(owned) < 20 THEN Cardinality(owned) ELSE 20)
               /\ \A e, f \in resp'.body :
                     e.rank < f.rank => e.doc.created_at >= f.doc.created_at
               /\ \A d \in owned \ listed : \A e \in listed :
                     e.created_at >= d.created_at
      ]_vars

\* C17 witness: after a deletion alice still holds 21 voice records, of
\* which the listing shows 20 and none of bob's
C17_Witness ==
    /\ resp.kind = "voice_history" /\ resp.user = "alice"
    /\ Cardinality(resp.body) = 20
    /\ Cardinality({d \in voiceRecords : d.user_id = "alice"}) = 21
    /\ \E d \in voiceRecords : d.user_id = "bob"

\* the step of worker w that carries out a delete on a collection
Deletes(w, kind) == req[w].kind = kind /\ req[w].pc = "delete" /\ req'[w].pc = "idle"

\* C19: a record never changes once created; it leaves the store only by
\* a delete request of its owner; a delete request of another account or
\* for an id no record has leaves every record in place; a successful
\* delete removes the record named and no other.
C19_Lifecycle ==
    [][/\ voiceRecords' \subseteq voiceRecords
       /\ textRecords' \subseteq textRecords
       /\ \A d \in voiceRecords \ voiceRecords' :
             \E w \in Workers :
                /\ Deletes(w, "delete_voice")
                /\ req[w].id = d.id /\ req[w].current_user.id = d.user_id
       /\ \A d \in textRecords \ textRecords' :
             \E w \in Workers :
                /\ Deletes(w, "delete_text")
                /\ req[w].id = d.id /\ req[w].current_user.id = d.user_id
       /\ Cardinality(voiceRecords \ voiceRecords')
             + Cardinality(textRecords \ textRecords') <= 1
       /\ \A w \in Workers :
             /\ (Arrival(w) /\ resp'.status \in {403, 404})
                => voiceRecords' = voiceRecords /\ textRecords' = textRecords
             /\ Deletes(w, "delete_voice")
                => /\ resp'.status = 200
                   /\ ~\E d \in voiceRecords' : d.id = req[w].id
             /\ Deletes(w, "delete_text")
                => /\ resp'.status = 200
                   /\ ~\E d \in textRecords' : d.id = req[w].id
      ]_vars

\* C19 witness: alice has deleted her voice record 2: it is gone and the
\* other records of the full collection are all in place
C19_Witness ==
    /\ resp.kind = "delete_voice" /\ resp.status = 200 /\ resp.user = "alice"
    /\ ~\E d \in voiceRecords : d.id = 2
    /\ Cardinality(voiceRecords) = HistoryLimit + MaxExtra
    /\ Cardinality(textRecords) = 2

\* the lines of a response, stripped
Stripped(text) == [i \in 1..Len(text) |-> strip(text[i])]

\* a response made of a SUMMARY: line, bulleted lines, an ACTION ITEMS:
\* line at position k and bulleted lines
WellFormed(text, k) ==
    /\ Len(text) >= 2 /\ k \in 2..Len(text)
    /\ strip(text[1]) = <<"S">>
    /\ strip(text[k]) = <<"A">>
    /\ \A i \in (2..Len(text)) \ {k} : startswith(strip(text[i]), Bullets)

\* a bulleted line without its marker and the whitespace around the rest
Unmarked(line) == strip(Tail(strip(line)))

NonEmpty(item) == item # <<>>

\* C18: of a response made of a SUMMARY: line, bulleted lines, an ACTION
\* ITEMS: line and bulleted lines the parser returns exactly the bulleted
\* summary lines and exactly the bulleted action items, in order, without
\* marker and surrounding whitespace, empty ones dropped; of a response
\* without section markers the whole response becomes the summary and the
\* action-item list is empty.
C18_Parsing ==
    (parser.pc = "returned" /\ parser.full_analysis # <<<<"Error">>>>)
    => LET text == parser.full_analysis IN
       /\ \A k \in 3..Len(text) :
             WellFormed(text, k)
             => /\ parser.summary = SubSeq(Stripped(text), 2, k - 1)
                /\ parser.action_items
                     = SelectSeq([i \in 1..(Len(text) - k) |-> Unmarked(text[k + i])],
                                 NonEmpty)
       /\ (\A i \in 1..Len(text) : ~Contains(text[i], "S") /\ ~Contains(text[i], "A"))
             => /\ parser.summary = StripText(text)
                /\ parser.action_items = <<>>

\* a call of transcribe_audio that has created its file and has not ended
InProgress(w) == scratch[w].pc \in {"read", "write", "send", "extract", "finally"}

\* C20: on every exit path of transcribe_audio (normal return, failure of
\* the read or the write of the upload, of the provider call, of the
\* extraction) the scratch file of the call no longer exists when the call
\* ends, and no file exists that is not of a call in progress.
C20_ScratchReleased ==
    /\ [](tempfiles = {scratch[w].temp_file : w \in {v \in Workers : InProgress(v)}})
    /\ [][\A w \in Workers :
             (scratch[w].pc = "finally" /\ scratch'[w].pc = "done")
             => /\ scratch[w].error \in Failures \cup {"none"}
                /\ scratch[w].temp_file \notin tempfiles']_vars

C20_Witness ==
    /\ scratch["w1"].pc = "done" /\ scratch["w1"].error = "extract"
    /\ scratch["w2"].pc = "done" /\ scratch["w2"].error = "none"
    /\ tempfiles = {}

\* C21: no lost usage update.  A voice request that completes in the
\* calendar month of the stored ledger raises the stored consumed
\* voice-minutes by exactly the minutes it charges, whatever other requests
\* of the account have saved since it loaded its copy; so the stored value
\* at the end is the starting value plus the sum of the minutes charged.
C21_NoLostUpdate ==
    [][\A w \in Workers :
         LET a == req[w].current_user.id IN
         (/\ Steps(w, "voice", "account")
          /\ SameMonth(users[a].usage.last_reset, now'))
         => users'[a].usage.voice_minutes_used
               = users[a].usage.voice_minutes_used + req[w].duration_minutes
      ]_vars

\* C22: the profile endpoint does not lower usage.  Its save, made in the
\* calendar month of the stored ledger, leaves neither stored counter below
\* its value before the save, also when a voice request of the account has
\* committed its minutes between the profile request's load and its save.
C22_ProfileKeepsUsage ==
    [][\A w \in Workers :
         LET a == req[w].current_user.id IN
         (/\ Steps(w, "me", "save")
          /\ SameMonth(users[a].usage.last_reset, now'))
         => /\ users'[a].usage.voice_minutes_used >= users[a].usage.voice_minutes_used
            /\ users'[a].usage.comments_analyzed >= users[a].usage.comments_analyzed
      ]_vars

\* a delete of a record, of either collection, takes effect
DeleteStep(w) == Deletes(w, "delete_voice") \/ Deletes(w, "delete_text")

\* the deletion leaves the ledger of every account as it is
DeletionFrame ==
    [][\A w \in Workers : DeleteStep(w) => users' = users]_vars

\* C23: deletion does not refund usage.  A delete of a voice or of a text
\* record leaves the usage ledger of every account unchanged, and under
\* every sequence of submit, get, list and delete operations no step taken
\* in the calendar month of a stored ledger lowers its consumed
\* voice-minutes.
C23_NoRefund ==
    [][/\ \A w \in Workers : DeleteStep(w) => users' = users
       /\ \A a \in Owners :
             SameMonth(users[a].usage.last_reset, now')
             => users'[a].usage.voice_minutes_used >= users[a].usage.voice_minutes_used
      ]_vars

====
